---- MODULE Spec2Model ----
(***************************************************************************)
(* Model of system/updated/casync/format.py: the casync index decoder      *)
(* (CAIndex.from_buffer), the archive decoder (CATar.from_bytes), the      *)
(* 16-byte structural header reader they share, parse_caidx, which decodes *)
(* an index, reads its chunks from a chunk store and decodes their         *)
(* concatenation as an archive, and extract_tar, which writes the files of *)
(* a decoded archive into a directory.                                     *)
(*                                                                         *)
(* A buffer is a sequence of bytes (0..255) with a 0-based cursor `pos`,   *)
(* as io.BytesIO.  A u64 magic is kept as its 8 little-endian bytes:       *)
(* struct.unpack("<Q") is a bijection between 8-byte strings and u64       *)
(* values, so equality of magics is equality of those byte strings.  A u64 *)
(* that the code does arithmetic on is converted with U64.                 *)
(*                                                                         *)
(* Python exceptions are named after the error taxonomy of the             *)
(* specification: struct.error (short unpack) is "Truncated", a failed     *)
(* `assert magic == MAGIC_TYPE` is "UnexpectedMagic"; "AttributeError" and *)
(* "UnicodeDecodeError" keep their Python names.  Assertions are enabled   *)
(* (the interpreter is not run with -O).                                   *)
(*                                                                         *)
(* The u64 values the decoders compute with (payload sizes, cumulative     *)
(* chunk offsets) stay below 2^31 in the buffers explored; Python integers *)
(* do not overflow, so no width is lost by that.                           *)
(***************************************************************************)
EXTENDS Integers, Sequences, FiniteSets, TLC

VARIABLES
  prog,         \* entry point under execution: "tar" (CATar.from_bytes),
                \* "index" (CAIndex.from_buffer), "caidx" (parse_caidx) or
                \* "extract" (extract_tar)
  input,        \* the description the buffer was built from (never written)
  buf,          \* the bytes of the io.BytesIO
  pos,          \* b.tell()
  pc,           \* position of the running decoder
  err,          \* the exception that ended the call, "none" if none
  reads,        \* history: one entry per MagicCAFormatHeader.from_buffer call
                \* on the current io.BytesIO
  archive,      \* CATar.archive: the archive-level CAEntry
  files,        \* CATar.files
  filename,     \* CAFilename.from_buffer: local `filename` (bytes)
  name,         \* CAFilename.filename of the file being decoded (str)
  length,       \* CAIndex.from_buffer: local `length`
  num_chunks,   \* CAIndex.from_buffer: local `num_chunks`
  offset,       \* CAIndex.from_buffer: local `offset`
  chunks,       \* CAIndex.chunks
  store,        \* the chunk store behind chunk_reader (never written)
  calls,        \* history: the descriptors passed to chunk_reader.read
  chunk_data,   \* parse_caidx: the chunks read so far, the items of the join
  dir,          \* extract_tar: the directory on disk
  written       \* history: the files extract_tar has written and closed

vars == <<prog, input, buf, pos, pc, err, reads, archive, files,
          filename, name, length, num_chunks, offset, chunks,
          store, calls, chunk_data, dir, written>>

PipeLocals == <<store, calls, chunk_data>>

ExtractLocals == <<dir, written>>

\* the entry points that run CATar.from_bytes, CAIndex.from_buffer
TarProgs == {"tar", "caidx"}

IndexProgs == {"index", "caidx"}

----------------------------------------------------------------------------
(* Program constants *)

CA_FORMAT_TABLE_TAIL_MARKER == <<23, 116, 241, 18, 225, 185, 117, 14>>  \* 0x0e75b9e112f17417
CA_HEADER_LEN == 32
CA_TABLE_HEADER_LEN == 16
CA_TABLE_ENTRY_LEN == 40
CA_TABLE_MIN_LEN == CA_TABLE_HEADER_LEN + CA_TABLE_ENTRY_LEN

CA_FORMAT_INDEX == <<249, 159, 18, 123, 156, 77, 130, 150>>    \* 0x96824d9c7b129ff9
CA_FORMAT_TABLE == <<125, 65, 23, 47, 17, 158, 91, 231>>       \* 0xe75b9e112f17417d
CA_FORMAT_ENTRY == <<81, 187, 91, 234, 188, 250, 150, 19>>     \* 0x1396fabcea5bbb51
CA_FORMAT_GOODBYE == <<3, 196, 39, 131, 94, 92, 211, 223>>     \* 0xdfd35c5e8327c403
CA_FORMAT_FILENAME == <<11, 31, 22, 179, 188, 110, 187, 109>>  \* 0x6dbb6ebcb3161f0b
CA_FORMAT_PAYLOAD == <<201, 255, 220, 214, 147, 29, 158, 139>> \* 0x8b9e1d93d6dcffc9

CA_MAX_FILENAME_SIZE == 256

\* 8*6: the six u64 fields struct.unpack("<QQQQQQ") reads in CAEntry.from_buffer
CA_ENTRY_FIELDS_LEN == 48

----------------------------------------------------------------------------
(* Bytes and the cursor *)

Min(a, b) == IF a < b THEN a ELSE b

\* n copies of the byte x
Rep(x, n) == [i \in 1..n |-> x]

\* struct.pack("<Q", n), for 0 <= n < 2^31
LE64(n) ==
  <<n % 256, (n \div 256) % 256, (n \div 65536) % 256, (n \div 16777216) % 256,
    0, 0, 0, 0>>

\* struct.unpack("<Q", bs)[0]
U64(bs) ==
  bs[1] + 256 * (bs[2] + 256 * (bs[3] + 256 * (bs[4] + 256 * (bs[5]
        + 256 * (bs[6] + 256 * (bs[7] + 256 * bs[8]))))))

\* b.read(n) at cursor p: at most n bytes, fewer at the end of the buffer and
\* everything that is left when n is negative.  The cursor moves by the
\* number of bytes returned.
Read(b, p, n) ==
  IF n < 0 THEN SubSeq(b, p + 1, Len(b))
  ELSE SubSeq(b, p + 1, Min(p + n, Len(b)))

----------------------------------------------------------------------------
(* MagicCAFormatHeader.from_buffer, for the class made with MAGIC_TYPE *)

NoHeader == [kind |-> "unset", size |-> <<>>, type |-> <<>>, err |-> "none"]

\* mutant: the unused CA_FORMAT_TABLE_TAIL_MARKER is the end marker
ReadHeader_tail(b, p, MAGIC_TYPE) ==
  LET raw   == Read(b, p, CA_TABLE_HEADER_LEN)
      magic == SubSeq(raw, 9, 16)
  IN  IF Len(raw) < 16
        THEN [kind |-> "error", size |-> <<>>, type |-> <<>>, err |-> "Truncated"]
      ELSE IF magic = CA_FORMAT_TABLE_TAIL_MARKER
        THEN [kind |-> "none", size |-> <<>>, type |-> <<>>, err |-> "none"]
      ELSE IF magic # MAGIC_TYPE
        THEN [kind |-> "error", size |-> <<>>, type |-> <<>>, err |-> "UnexpectedMagic"]
      ELSE [kind |-> "header", size |-> SubSeq(raw, 1, 8), type |-> magic, err |-> "none"]

\* mutant: a short read is taken for the end of the records
ReadHeader_eof(b, p, MAGIC_TYPE) ==
  LET raw   == Read(b, p, CA_TABLE_HEADER_LEN)
      magic == SubSeq(raw, 9, 16)
  IN  IF Len(raw) < 16 \/ magic = CA_FORMAT_GOODBYE
        THEN [kind |-> "none", size |-> <<>>, type |-> <<>>, err |-> "none"]
      ELSE IF magic # MAGIC_TYPE
        THEN [kind |-> "error", size |-> <<>>, type |-> <<>>, err |-> "UnexpectedMagic"]
      ELSE [kind |-> "header", size |-> SubSeq(raw, 1, 8), type |-> magic, err |-> "none"]

\* mutant: a short read is filled up with zero bytes
ReadHeader_zero(b, p, MAGIC_TYPE) ==
  LET got   == Read(b, p, CA_TABLE_HEADER_LEN)
      raw   == got \o Rep(0, CA_TABLE_HEADER_LEN - Len(got))
      magic == SubSeq(raw, 9, 16)
  IN  IF magic = CA_FORMAT_GOODBYE
        THEN [kind |-> "none", size |-> <<>>, type |-> <<>>, err |-> "none"]
      ELSE IF magic # MAGIC_TYPE
        THEN [kind |-> "error", size |-> <<>>, type |-> <<>>, err |-> "UnexpectedMagic"]
      ELSE [kind |-> "header", size |-> SubSeq(raw, 1, 8), type |-> magic, err |-> "none"]

ReadHeader(b, p, MAGIC_TYPE) ==
  LET raw   == Read(b, p, CA_TABLE_HEADER_LEN)
      magic == SubSeq(raw, 9, 16)
  IN  IF Len(raw) < 16
        THEN [kind |-> "error", size |-> <<>>, type |-> <<>>, err |-> "Truncated"]
      ELSE IF magic = CA_FORMAT_GOODBYE
        THEN [kind |-> "none", size |-> <<>>, type |-> <<>>, err |-> "none"]
      ELSE IF magic # MAGIC_TYPE
        THEN [kind |-> "error", size |-> <<>>, type |-> <<>>, err |-> "UnexpectedMagic"]
      ELSE [kind |-> "header", size |-> SubSeq(raw, 1, 8), type |-> magic, err |-> "none"]

\* mutant: the goodbye record is looked at and left in the buffer
AfterHeader_peek(b, p) ==
  IF SubSeq(Read(b, p, CA_TABLE_HEADER_LEN), 9, 16) = CA_FORMAT_GOODBYE
    THEN p ELSE p + Len(Read(b, p, CA_TABLE_HEADER_LEN))

\* the cursor after the b.read(16) of ReadHeader
AfterHeader(b, p) == p + Len(Read(b, p, CA_TABLE_HEADER_LEN))

----------------------------------------------------------------------------
(* bytes.decode("utf-8") and str.encode("utf-8"); a str is a sequence of    *)
(* code points                                                              *)

IsCont(x) == x >= 128 /\ x <= 191

\* number of bytes of the UTF-8 sequence that starts at bs[i], 0 if there is
\* no well-formed sequence there
Utf8Width(bs, i) ==
  LET x == bs[i]
      n == Len(bs)
  IN  IF x < 128 THEN 1
      ELSE IF x >= 194 /\ x <= 223
        THEN IF i + 1 <= n /\ IsCont(bs[i + 1]) THEN 2 ELSE 0
      ELSE IF x >= 224 /\ x <= 239
        THEN IF /\ i + 2 <= n
                /\ IsCont(bs[i + 1]) /\ IsCont(bs[i + 2])
                /\ (x = 224 => bs[i + 1] >= 160)
                /\ (x = 237 => bs[i + 1] <= 159)
             THEN 3 ELSE 0
      ELSE IF x >= 240 /\ x <= 244
        THEN IF /\ i + 3 <= n
                /\ IsCont(bs[i + 1]) /\ IsCont(bs[i + 2]) /\ IsCont(bs[i + 3])
                /\ (x = 240 => bs[i + 1] >= 144)
                /\ (x = 244 => bs[i + 1] <= 143)
             THEN 4 ELSE 0
      ELSE 0

Utf8Point(bs, i, w) ==
  IF w = 1 THEN bs[i]
  ELSE IF w = 2 THEN (bs[i] - 192) * 64 + (bs[i + 1] - 128)
  ELSE IF w = 3 THEN (bs[i] - 224) * 4096 + (bs[i + 1] - 128) * 64 + (bs[i + 2] - 128)
  ELSE (bs[i] - 240) * 262144 + (bs[i + 1] - 128) * 4096
         + (bs[i + 2] - 128) * 64 + (bs[i + 3] - 128)

\* bs[i..] is well-formed: every byte that is not a continuation byte starts
\* a well-formed sequence, and every continuation byte belongs to the
\* sequence of the nearest such byte before it
Utf8Valid(bs, i) ==
  \A j \in i..Len(bs) :
    IF IsCont(bs[j])
      THEN \E k \in 1..3 :
             /\ j - k >= i
             /\ ~IsCont(bs[j - k])
             /\ \A m \in 1..(k - 1) : IsCont(bs[j - m])
             /\ Utf8Width(bs, j - k) > k
      ELSE Utf8Width(bs, j) > 0

\* the code points of bs[lo..hi], a whole number of well-formed sequences;
\* the range is split at a sequence start near its middle
RECURSIVE Utf8DecodeRange(_, _, _)
Utf8DecodeRange(bs, lo, hi) ==
  IF lo > hi THEN <<>>
  ELSE LET w == Utf8Width(bs, lo)
       IN  IF lo + w > hi THEN <<Utf8Point(bs, lo, w)>>
           ELSE LET c == IF (lo + hi) \div 2 > lo THEN (lo + hi) \div 2 ELSE lo + 1
                    near == {i \in c..Min(c + 3, hi) : ~IsCont(bs[i])}
                    m == IF near = {} THEN lo + w
                         ELSE CHOOSE i \in near : \A j \in near : i <= j
                IN  Utf8DecodeRange(bs, lo, m - 1) \o Utf8DecodeRange(bs, m, hi)

\* bytes.decode("utf-8") of well-formed bytes
Utf8Decode(bs) == Utf8DecodeRange(bs, 1, Len(bs))

Utf8EncodePoint(c) ==
  IF c < 128 THEN <<c>>
  ELSE IF c < 2048 THEN <<192 + (c \div 64), 128 + (c % 64)>>
  ELSE IF c < 65536
    THEN <<224 + (c \div 4096), 128 + ((c \div 64) % 64), 128 + (c % 64)>>
  ELSE <<240 + (c \div 262144), 128 + ((c \div 4096) % 64),
         128 + ((c \div 64) % 64), 128 + (c % 64)>>

\* str.encode("utf-8"): the encodings of the code points, concatenated
RECURSIVE Utf8Encode(_)
Utf8Encode(s) ==
  IF s = <<>> THEN <<>>
  ELSE IF Len(s) = 1 THEN Utf8EncodePoint(s[1])
  ELSE Utf8Encode(SubSeq(s, 1, Len(s) \div 2))
         \o Utf8Encode(SubSeq(s, Len(s) \div 2 + 1, Len(s)))

\* what one call of MagicCAFormatHeader.from_buffer did: the class it was
\* called on (`at`, with its MAGIC_TYPE `expected`), the cursor before the
\* call, the bytes b.read(16) returned, and the outcome
HeaderCall(b, p, MAGIC_TYPE, at) ==
  [at |-> at, expected |-> MAGIC_TYPE, pos |-> p,
   raw |-> Read(b, p, CA_TABLE_HEADER_LEN), result |-> ReadHeader(b, p, MAGIC_TYPE)]

----------------------------------------------------------------------------
(* CAEntry.from_buffer (CAArchive.from_buffer only wraps it): the entry    *)
(* header, then struct.unpack("<QQQQQQ", b.read(8*6)).  A header of None   *)
(* (goodbye magic) is stored in the CAEntry like any other.                *)

CAEntry_from_buffer(b, p) ==
  LET h      == ReadHeader(b, p, CA_FORMAT_ENTRY)
      p1     == AfterHeader(b, p)
      fields == Read(b, p1, CA_ENTRY_FIELDS_LEN)
  IN  IF h.kind = "error"
        THEN [err |-> h.err, pos |-> p1, entry |-> NoHeader]
      ELSE IF Len(fields) < CA_ENTRY_FIELDS_LEN
        THEN [err |-> "Truncated", pos |-> p1 + Len(fields), entry |-> NoHeader]
      ELSE [err |-> "none", pos |-> p1 + CA_ENTRY_FIELDS_LEN, entry |-> h]

----------------------------------------------------------------------------
(* CATar.from_bytes *)

Fail(e) == pc' = "failed" /\ err' = e

IndexLocals == <<length, num_chunks, offset, chunks>>

\* archive = CAArchive.from_buffer(b); files = []
CATar_archive ==
  /\ prog \in TarProgs /\ pc = "archive"
  /\ LET r == CAEntry_from_buffer(buf, pos)
     IN  /\ reads' = Append(reads, HeaderCall(buf, pos, CA_FORMAT_ENTRY, "archive"))
         /\ pos' = r.pos
         /\ archive' = r.entry
         /\ IF r.err # "none" THEN Fail(r.err) ELSE pc' = "file" /\ err' = err
  /\ UNCHANGED <<PipeLocals, ExtractLocals>>
  /\ UNCHANGED <<prog, input, buf, files, filename, name, IndexLocals>>

\* CAFile.from_bytes, CAFilename.from_buffer up to `filename = b""`: the
\* filename header; None ends the loop of CATar.from_bytes, which returns
CAFilename_header ==
  /\ prog \in TarProgs /\ pc = "file"
  /\ LET h == ReadHeader(buf, pos, CA_FORMAT_FILENAME)
     IN  /\ reads' = Append(reads, HeaderCall(buf, pos, CA_FORMAT_FILENAME, "filename"))
         /\ pos' = AfterHeader(buf, pos)
         /\ filename' = <<>>
         /\ CASE h.kind = "error" -> Fail(h.err)
              [] h.kind = "none" -> pc' = "done" /\ err' = err
              [] OTHER -> pc' = "filename" /\ err' = err
  /\ UNCHANGED <<PipeLocals, ExtractLocals>>
  /\ UNCHANGED <<prog, input, buf, archive, files, name, IndexLocals>>

\* mutant: the terminator is kept in the name
FilenameStep_keepzero(fn, c) == fn \o c

\* `if c == b'\x00': break; filename += c`: the name after reading c
FilenameStep(fn, c) == IF c = <<0>> THEN fn ELSE fn \o c

\* mutant: the cap is tested with <=
FilenameFull_le(fn) == ~(Len(fn) <= CA_MAX_FILENAME_SIZE)

\* the loop condition `len(filename) < CA_MAX_FILENAME_SIZE` is false
FilenameFull(fn) == ~(Len(fn) < CA_MAX_FILENAME_SIZE)

\* mutant: a declared size below the header size means no data
PayloadDataLen_clamped(size) == IF size < 16 THEN 0 ELSE size - 16

\* the argument of b.read in `data = b.read(payload.size - 16)`
PayloadDataLen(size) == size - 16

\* one iteration of `while len(filename) < CA_MAX_FILENAME_SIZE`, and, when
\* the loop ends with it (break, or the condition false at the next test),
\* filename.decode("utf-8").  At the end of the buffer b.read(1) is b"": it
\* is not b'\x00', nothing is appended and the iteration changes nothing.
CAFilename_loop ==
  /\ prog \in TarProgs /\ pc = "filename"
  /\ ~FilenameFull(filename)
  /\ LET c     == Read(buf, pos, 1)
         fn    == FilenameStep(filename, c)
         leave == c = <<0>> \/ FilenameFull(fn)
     IN  /\ pos' = pos + Len(c)
         /\ filename' = fn
         /\ IF ~leave THEN pc' = pc /\ err' = err /\ name' = name
            ELSE IF ~Utf8Valid(fn, 1)
              THEN Fail("UnicodeDecodeError") /\ name' = name
            ELSE pc' = "payload" /\ err' = err /\ name' = Utf8Decode(fn)
  /\ UNCHANGED <<PipeLocals, ExtractLocals>>
  /\ UNCHANGED <<prog, input, buf, reads, archive, files, IndexLocals>>

\* the rest of CAFile.from_bytes: the file's entry, the payload header,
\* data = b.read(payload.size - 16), and files.append(file).  `payload` is
\* None after a goodbye magic and payload.size raises AttributeError.
CAFile_payload ==
  /\ prog \in TarProgs /\ pc = "payload"
  /\ LET e  == CAEntry_from_buffer(buf, pos)
         r1 == Append(reads, HeaderCall(buf, pos, CA_FORMAT_ENTRY, "entry"))
         payload == ReadHeader(buf, e.pos, CA_FORMAT_PAYLOAD)
         r2 == Append(r1, HeaderCall(buf, e.pos, CA_FORMAT_PAYLOAD, "payload"))
         p2 == AfterHeader(buf, e.pos)
     IN  IF e.err # "none"
           THEN Fail(e.err) /\ pos' = e.pos /\ reads' = r1 /\ files' = files
         ELSE IF payload.kind = "error"
           THEN Fail(payload.err) /\ pos' = p2 /\ reads' = r2 /\ files' = files
         ELSE IF payload.kind = "none"
           THEN Fail("AttributeError") /\ pos' = p2 /\ reads' = r2 /\ files' = files
         ELSE LET size == U64(payload.size)
                  data == Read(buf, p2, PayloadDataLen(size))
              IN  /\ pos' = p2 + Len(data)
                  /\ reads' = r2
                  /\ files' = Append(files, [filename |-> name, data |-> data,
                                             payload_size |-> size])
                  /\ pc' = "file" /\ err' = err
  /\ UNCHANGED <<PipeLocals, ExtractLocals>>
  /\ UNCHANGED <<prog, input, buf, archive, filename, name, IndexLocals>>
----------------------------------------------------------------------------
(* CAIndex.from_buffer *)

TarLocals == <<archive, files, filename, name>>

\* mutant: the index header and preamble are not subtracted
NumChunks_noheader(len) == (len - CA_TABLE_MIN_LEN) \div CA_TABLE_ENTRY_LEN

\* mutant: the table ends with its last entry, no tail record is left out
NumChunks_notail(len) == (len - CA_HEADER_LEN - CA_TABLE_HEADER_LEN) \div CA_TABLE_ENTRY_LEN

\* num_chunks = (length - CA_HEADER_LEN - CA_TABLE_MIN_LEN) // CA_TABLE_ENTRY_LEN
\* (floor division in Python and in TLA+)
NumChunks(len) == (len - CA_HEADER_LEN - CA_TABLE_MIN_LEN) \div CA_TABLE_ENTRY_LEN

\* mutant: the running offset is set to the chunk's length
NextOffset_length(off, chunk) == chunk.length

\* offset += chunk.length
NextOffset(off, chunk) == off + chunk.length

\* mutant: the cumulative offset read is kept as the length
CAChunk_from_buffer_abs(b, p, last_offset) ==
  LET raw        == Read(b, p, 8)
      new_offset == U64(raw)
      sha        == Read(b, p + Len(raw), 32)
  IN  IF Len(raw) < 8
        THEN [err |-> "Truncated", pos |-> p + Len(raw),
              chunk |-> [sha |-> <<>>, offset |-> last_offset, length |-> 0]]
      ELSE [err |-> "none", pos |-> p + 8 + Len(sha),
            chunk |-> [sha |-> sha, offset |-> last_offset,
                       length |-> new_offset]]

\* CAChunk.from_buffer(b, last_offset): struct.unpack("<Q", b.read(8)) needs
\* its 8 bytes, sha = b.read(32) takes what is there
CAChunk_from_buffer(b, p, last_offset) ==
  LET raw        == Read(b, p, 8)
      new_offset == U64(raw)
      sha        == Read(b, p + Len(raw), 32)
  IN  IF Len(raw) < 8
        THEN [err |-> "Truncated", pos |-> p + Len(raw),
              chunk |-> [sha |-> <<>>, offset |-> last_offset, length |-> 0]]
      ELSE [err |-> "none", pos |-> p + 8 + Len(sha),
            chunk |-> [sha |-> sha, offset |-> last_offset,
                       length |-> new_offset - last_offset]]

\* length = b.tell() at the end; CaFormatIndex.from_buffer (index header and
\* struct.unpack("<QQQQ", b.read(CA_HEADER_LEN))); CATableHeader.from_buffer,
\* whose result is dropped; num_chunks; chunks = []; offset = 0
CAIndex_headers ==
  /\ prog \in IndexProgs /\ pc = "index"
  /\ LET h  == ReadHeader(buf, pos, CA_FORMAT_INDEX)
         r1 == Append(reads, HeaderCall(buf, pos, CA_FORMAT_INDEX, "index"))
         p1 == AfterHeader(buf, pos)
         preamble == Read(buf, p1, CA_HEADER_LEN)
         p2 == p1 + Len(preamble)
         t  == ReadHeader(buf, p2, CA_FORMAT_TABLE)
         r2 == Append(r1, HeaderCall(buf, p2, CA_FORMAT_TABLE, "table"))
         p3 == AfterHeader(buf, p2)
     IN  /\ length' = Len(buf)
         /\ IF h.kind = "error"
              THEN Fail(h.err) /\ pos' = p1 /\ reads' = r1
                   /\ UNCHANGED <<num_chunks, offset, chunks>>
            ELSE IF Len(preamble) < CA_HEADER_LEN
              THEN Fail("Truncated") /\ pos' = p2 /\ reads' = r1
                   /\ UNCHANGED <<num_chunks, offset, chunks>>
            ELSE IF t.kind = "error"
              THEN Fail(t.err) /\ pos' = p3 /\ reads' = r2
                   /\ UNCHANGED <<num_chunks, offset, chunks>>
            ELSE /\ pos' = p3 /\ reads' = r2
                 /\ num_chunks' = NumChunks(Len(buf))
                 /\ chunks' = <<>>
                 /\ offset' = 0
                 /\ pc' = "chunks" /\ err' = err
  /\ UNCHANGED <<PipeLocals, ExtractLocals>>
  /\ UNCHANGED <<prog, input, buf, TarLocals>>

\* one iteration of `for _ in range(num_chunks)`
CAIndex_chunk ==
  /\ prog \in IndexProgs /\ pc = "chunks"
  /\ Len(chunks) < num_chunks
  /\ LET r == CAChunk_from_buffer(buf, pos, offset)
     IN  /\ pos' = r.pos
         /\ IF r.err # "none"
              THEN Fail(r.err) /\ UNCHANGED <<offset, chunks>>
            ELSE /\ offset' = NextOffset(offset, r.chunk)
                 /\ chunks' = Append(chunks, r.chunk)
                 /\ pc' = pc /\ err' = err
  /\ UNCHANGED <<PipeLocals, ExtractLocals>>
  /\ UNCHANGED <<prog, input, buf, reads, length, num_chunks, TarLocals>>

\* return CAIndex(chunks), range(num_chunks) being exhausted (at once when
\* num_chunks <= 0); parse_caidx goes on to read the chunks
CAIndex_return ==
  /\ prog \in IndexProgs /\ pc = "chunks"
  /\ Len(chunks) >= num_chunks
  /\ pc' = IF prog = "caidx" THEN "read" ELSE "done"
  /\ UNCHANGED <<PipeLocals, ExtractLocals>>
  /\ UNCHANGED <<prog, input, buf, pos, err, reads, length, num_chunks, offset,
                 chunks, TarLocals>>
----------------------------------------------------------------------------
(* parse_caidx.  CAIndex.from_file is CAIndex.from_buffer on the bytes of   *)
(* the index file.  DirectoryChunkReader belongs to the module reader of    *)
(* the package, which is not part of format.py: its read is taken as a      *)
(* lookup of the chunk's hash in the store, which returns the bytes stored  *)
(* under it or raises "ChunkResolutionError".                               *)

DirectoryChunkReader_read(st, chunk) ==
  IF \E e \in st : e.sha = chunk.sha
    THEN [err |-> "none", data |-> (CHOOSE e \in st : e.sha = chunk.sha).data]
    ELSE [err |-> "ChunkResolutionError", data |-> <<>>]

\* mutant: the descriptors are taken from the last to the first
NextChunk_reversed(cs, n) == cs[Len(cs) - n]

\* `for chunk in caidx.chunks`: the descriptor that follows the first n
NextChunk(cs, n) == cs[n + 1]

\* mutant: the items are joined from the last to the first
Join_reversed(items) ==
  LET RECURSIVE J(_)
      J(k) == IF k = 0 THEN <<>> ELSE items[k] \o J(k - 1)
  IN  J(Len(items))

\* b"".join(items)
Join(items) ==
  LET RECURSIVE J(_)
      J(k) == IF k > Len(items) THEN <<>> ELSE items[k] \o J(k + 1)
  IN  J(1)

\* one item of the generator `chunk_reader.read(chunk) for chunk in
\* caidx.chunks` that b"".join consumes; an exception of read ends
\* parse_caidx
parse_caidx_read ==
  /\ prog = "caidx" /\ pc = "read"
  /\ Len(calls) < Len(chunks)
  /\ LET chunk == NextChunk(chunks, Len(calls))
         r     == DirectoryChunkReader_read(store, chunk)
     IN  /\ calls' = Append(calls, chunk)
         /\ IF r.err # "none"
              THEN Fail(r.err) /\ chunk_data' = chunk_data
            ELSE chunk_data' = Append(chunk_data, r.data) /\ pc' = pc /\ err' = err
  /\ UNCHANGED <<prog, input, buf, pos, reads, store, TarLocals, IndexLocals,
                 ExtractLocals>>

\* the generator is exhausted: data = b"".join(...), and
\* CATar.from_bytes(io.BytesIO(data)) is entered on the new buffer
parse_caidx_join ==
  /\ prog = "caidx" /\ pc = "read"
  /\ Len(calls) >= Len(chunks)
  /\ buf' = Join(chunk_data)
  /\ pos' = 0
  /\ reads' = <<>>
  /\ pc' = "archive"
  /\ UNCHANGED <<prog, input, err, PipeLocals, TarLocals, IndexLocals,
                 ExtractLocals>>

----------------------------------------------------------------------------
(* extract_tar(tar, directory).  The directory is [state, entries]: state   *)
(* "absent", "old" (the directory found at the call) or "fresh" (the one    *)
(* os.mkdir created), entries the files in it as [name, data].              *)
(* shutil.rmtree, os.mkdir, open and f.write are calls to the operating     *)
(* system and each may raise OSError ("IoError"); rmtree that fails may     *)
(* have removed some of the entries, and a write that fails after open      *)
(* leaves the file open(.., "wb") created or truncated.                     *)

\* open(path, "wb") and f.write(file.data) done
WriteFile(entries, file) ==
  {e \in entries : e.name # file.filename}
    \cup {[name |-> file.filename, data |-> file.data]}

\* open(path, "wb") done, f.write failed
TruncFile(entries, file) ==
  {e \in entries : e.name # file.filename}
    \cup {[name |-> file.filename, data |-> <<>>]}

\* mutant: the files are taken from the last to the first
NextFile_reversed(fs, n) == fs[Len(fs) - n]

\* `for file in tar.files`: the file that follows the first n
NextFile(fs, n) == fs[n + 1]

\* shutil.rmtree(directory)
extract_rmtree ==
  /\ prog = "extract" /\ pc = "rmtree"
  /\ \E ok \in BOOLEAN :
       IF ok /\ dir.state # "absent"
         THEN /\ dir' = [state |-> "absent", entries |-> {}]
              /\ pc' = "mkdir" /\ err' = err
       ELSE /\ \E rest \in SUBSET dir.entries : dir' = [dir EXCEPT !.entries = rest]
            /\ Fail("IoError")
  /\ UNCHANGED <<prog, input, buf, pos, reads, written, PipeLocals, TarLocals,
                 IndexLocals>>

\* os.mkdir(directory)
extract_mkdir ==
  /\ prog = "extract" /\ pc = "mkdir"
  /\ \E ok \in BOOLEAN :
       IF ok /\ dir.state = "absent"
         THEN /\ dir' = [state |-> "fresh", entries |-> {}]
              /\ pc' = "write" /\ err' = err
       ELSE dir' = dir /\ Fail("IoError")
  /\ UNCHANGED <<prog, input, buf, pos, reads, written, PipeLocals, TarLocals,
                 IndexLocals>>

\* one iteration of `for file in tar.files`: open, write, close
extract_write ==
  /\ prog = "extract" /\ pc = "write"
  /\ Len(written) < Len(files)
  /\ LET file == NextFile(files, Len(written))
     IN  \E outcome \in {"ok", "open", "write"} :
           CASE outcome = "ok" ->
                  /\ dir' = [dir EXCEPT !.entries = WriteFile(dir.entries, file)]
                  /\ written' = Append(written, file)
                  /\ pc' = pc /\ err' = err
             [] outcome = "open" ->
                  dir' = dir /\ written' = written /\ Fail("IoError")
             [] OTHER ->
                  /\ dir' = [dir EXCEPT !.entries = TruncFile(dir.entries, file)]
                  /\ written' = written
                  /\ Fail("IoError")
  /\ UNCHANGED <<prog, input, buf, pos, reads, PipeLocals, TarLocals, IndexLocals>>

\* tar.files is exhausted: extract_tar returns
extract_return ==
  /\ prog = "extract" /\ pc = "write"
  /\ Len(written) >= Len(files)
  /\ pc' = "done"
  /\ UNCHANGED <<prog, input, buf, pos, err, reads, PipeLocals, ExtractLocals,
                 TarLocals, IndexLocals>>

----------------------------------------------------------------------------
(* The buffers the decoders are run on.  A buffer is built from a           *)
(* description (`input`): a well-formed stream, or one with a single        *)
(* deviation (a swapped magic, a declared payload size that disagrees with  *)
(* the data, a missing or different end record, a truncation).              *)

MaxFiles == 2      \* files per archive
MaxName == 2       \* bytes of a short file name
MaxData == 2       \* bytes of a file's payload
MaxChunks == 3     \* entries of a chunk table
MaxExtra == 90     \* bytes appended after the table tail of an index

SeqsUpTo(S, n) == UNION {[1..k -> S] : k \in 0..n}

AllMagics ==
  {CA_FORMAT_INDEX, CA_FORMAT_TABLE, CA_FORMAT_ENTRY, CA_FORMAT_GOODBYE,
   CA_FORMAT_FILENAME, CA_FORMAT_PAYLOAD, CA_FORMAT_TABLE_TAIL_MARKER}

\* a 16-byte structural header
Header(size, magic) == LE64(size) \o magic

\* an entry record: header and six u64 metadata fields
EntryRecord(magic) == Header(16 + CA_ENTRY_FIELDS_LEN, magic) \o Rep(1, CA_ENTRY_FIELDS_LEN)

\* a file: filename record (name, zero terminator if f.term), entry record,
\* payload record declaring f.size bytes
File(nm, tm, d) ==
  [fn |-> CA_FORMAT_FILENAME, name |-> nm, term |-> tm, en |-> CA_FORMAT_ENTRY,
   pm |-> CA_FORMAT_PAYLOAD, size |-> 16 + Len(d), data |-> d]

NameTail(f) == IF f.term THEN <<0>> ELSE <<>>

EncodeFile(f) ==
  Header(16 + Len(f.name) + Len(NameTail(f)), f.fn) \o f.name \o NameTail(f)
    \o EntryRecord(f.en) \o Header(f.size, f.pm) \o f.data

RECURSIVE EncodeFiles(_)
EncodeFiles(fs) ==
  IF fs = <<>> THEN <<>> ELSE EncodeFile(Head(fs)) \o EncodeFiles(Tail(fs))

Arch(m, fs, e, c) == [m0 |-> m, files |-> fs, end |-> e, cut |-> c]

\* the whole stream of an archive description, before truncation
TarStream(a) ==
  EntryRecord(a.m0) \o EncodeFiles(a.files)
    \o (IF a.end = <<>> THEN <<>> ELSE Header(16, a.end))

EncodeTar(a) == SubSeq(TarStream(a), 1, Len(TarStream(a)) - a.cut)

ShortNames == SeqsUpTo({0, 97, 169, 195}, MaxName)

LongNames ==
  {Rep(97, CA_MAX_FILENAME_SIZE - 1), Rep(97, CA_MAX_FILENAME_SIZE),
   Rep(97, CA_MAX_FILENAME_SIZE + 1),
   Rep(97, CA_MAX_FILENAME_SIZE - 1) \o <<195, 169>>}

Datas == SeqsUpTo({0, 255}, MaxData)

SingleFiles ==
  {File(nm, tm, d) : nm \in ShortNames, tm \in BOOLEAN, d \in Datas}
    \cup {File(nm, tm, <<7>>) : nm \in LongNames, tm \in BOOLEAN}

PlainFiles == {File(nm, TRUE, d) : nm \in {<<97>>, <<195, 169>>}, d \in {<<>>, <<0, 255>>}}

Bases == SeqsUpTo(PlainFiles, MaxFiles)

DeclaredSizes == {0, 15} \cup (16..(16 + MaxData + 1))

Variants(f) ==
  {[f EXCEPT !.fn = m] : m \in AllMagics}
    \cup {[f EXCEPT !.en = m] : m \in AllMagics}
    \cup {[f EXCEPT !.pm = m] : m \in AllMagics}
    \cup {[f EXCEPT !.size = z] : z \in DeclaredSizes}

TarInputs ==
  {Arch(CA_FORMAT_ENTRY, <<f>>, CA_FORMAT_GOODBYE, 0) : f \in SingleFiles}
    \cup {Arch(m, fs, CA_FORMAT_GOODBYE, 0) : m \in AllMagics, fs \in Bases}
    \cup UNION {UNION {{Arch(CA_FORMAT_ENTRY, [fs EXCEPT ![i] = g], CA_FORMAT_GOODBYE, 0) :
                          g \in Variants(fs[i])} : i \in DOMAIN fs} : fs \in Bases}
    \cup {Arch(CA_FORMAT_ENTRY, fs, e, 0) : fs \in Bases, e \in AllMagics \cup {<<>>}}
    \cup UNION {{Arch(CA_FORMAT_ENTRY, fs, CA_FORMAT_GOODBYE, c) :
                   c \in 0..Len(TarStream(Arch(CA_FORMAT_ENTRY, fs, CA_FORMAT_GOODBYE, 0)))} :
                fs \in SeqsUpTo(PlainFiles, 1)}

\* an index: index header, 32 bytes of preamble, table header, one 40-byte
\* entry per cumulative offset (entry i has the hash Rep(i, 32)), the 40-byte
\* table tail if ix.tail, ix.extra more bytes, the last ix.cut bytes removed
Idx(i, t, os, tl, x, c) ==
  [im |-> i, tm |-> t, offs |-> os, tail |-> tl, extra |-> x, cut |-> c]

RECURSIVE EncodeEntries(_, _)
EncodeEntries(os, i) ==
  IF i > Len(os) THEN <<>>
  ELSE LE64(os[i]) \o Rep(i, 32) \o EncodeEntries(os, i + 1)

TableTail(n) ==
  LE64(0) \o LE64(0) \o LE64(16 + CA_HEADER_LEN)
    \o LE64(CA_TABLE_HEADER_LEN + (n + 1) * CA_TABLE_ENTRY_LEN)
    \o CA_FORMAT_TABLE_TAIL_MARKER

IndexStream(ix) ==
  Header(16 + CA_HEADER_LEN, ix.im) \o Rep(2, CA_HEADER_LEN)
    \o Rep(255, 8) \o ix.tm
    \o EncodeEntries(ix.offs, 1)
    \o (IF ix.tail THEN TableTail(Len(ix.offs)) ELSE <<>>)
    \o Rep(0, ix.extra)

EncodeIndex(ix) == SubSeq(IndexStream(ix), 1, Len(IndexStream(ix)) - ix.cut)

OffsetSeqs == SeqsUpTo({0, 16, 40, 56}, MaxChunks)

IncreasingOffsets == {<<>>, <<16>>, <<16, 40>>}

IndexInputs ==
  {Idx(CA_FORMAT_INDEX, CA_FORMAT_TABLE, os, tl, 0, 0) : os \in OffsetSeqs, tl \in BOOLEAN}
    \cup {Idx(m, CA_FORMAT_TABLE, os, TRUE, 0, 0) : m \in AllMagics, os \in OffsetSeqs}
    \cup {Idx(CA_FORMAT_INDEX, m, os, TRUE, 0, 0) : m \in AllMagics, os \in OffsetSeqs}
    \cup {Idx(CA_FORMAT_INDEX, CA_FORMAT_TABLE, os, TRUE, x, 0) :
            os \in IncreasingOffsets, x \in 0..MaxExtra}
    \cup UNION {{Idx(CA_FORMAT_INDEX, CA_FORMAT_TABLE, os, TRUE, 0, c) :
                   c \in 0..Len(IndexStream(Idx(CA_FORMAT_INDEX, CA_FORMAT_TABLE, os, TRUE, 0, 0)))} :
                os \in IncreasingOffsets}

\* the archive streams parse_caidx is run on: nothing, an archive without
\* files, an archive of the file "a.txt" holding "hello", and the first 40
\* bytes of that one
AtxtName == <<97, 46, 116, 120, 116>>

HelloData == <<104, 101, 108, 108, 111>>

AtxtArchive ==
  Arch(CA_FORMAT_ENTRY, <<File(AtxtName, TRUE, HelloData)>>, CA_FORMAT_GOODBYE, 0)

EmptyArchive == Arch(CA_FORMAT_ENTRY, <<>>, CA_FORMAT_GOODBYE, 0)

FortyBytes == SubSeq(TarStream(AtxtArchive), 1, 40)

Streams == {<<>>, TarStream(EmptyArchive), TarStream(AtxtArchive), FortyBytes}

\* where a stream may be cut into chunks, besides its end
ChunkCuts == {16, 40}

Increasing(os) == \A i \in 1..(Len(os) - 1) : os[i] < os[i + 1]

\* the cumulative offsets of the ways of chunking a stream of n bytes
Chunkings(n) ==
  IF n = 0 THEN {<<>>}
  ELSE {os \in SeqsUpTo(ChunkCuts \cup {n}, MaxChunks) :
          os # <<>> /\ Increasing(os) /\ os[Len(os)] = n}

\* chunk i of the stream, as EncodeEntries names it
ChunkOf(S, os, i) ==
  [sha |-> Rep(i, 32),
   data |-> SubSeq(S, (IF i = 1 THEN 0 ELSE os[i - 1]) + 1, os[i])]

\* the store that holds every chunk of the stream
StoreOf(S, os) == {ChunkOf(S, os, i) : i \in 1..Len(os)}

\* that store, the same with one chunk missing, and with one chunk that
\* lost its last byte
Stores(S, os) ==
  {StoreOf(S, os)}
    \cup {StoreOf(S, os) \ {e} : e \in StoreOf(S, os)}
    \cup {(StoreOf(S, os) \ {e})
            \cup {[sha |-> e.sha, data |-> SubSeq(e.data, 1, Len(e.data) - 1)]} :
          e \in StoreOf(S, os)}

\* the decoded files extract_tar is given, and the directories it finds
ExtractFiles ==
  {[filename |-> n, data |-> d, payload_size |-> 16 + Len(d)] :
     n \in {<<97>>, <<98>>}, d \in {<<1>>, <<2>>}}

OldData == <<9>>

OldEntries == {[name |-> <<97>>, data |-> OldData], [name |-> <<111>>, data |-> OldData]}

Directories ==
  {[state |-> "absent", entries |-> {}]}
    \cup {[state |-> "old", entries |-> E] : E \in SUBSET OldEntries}

----------------------------------------------------------------------------
(* The calls: extract_tar on decoded files and a directory,                 *)
(* parse_caidx on an index and a store, CATar.from_bytes(io.BytesIO(buf)) or *)
(* CAIndex.from_buffer(io.BytesIO(buf)) on one of the buffers above         *)

Init ==
  /\ \/ /\ prog = "tar" /\ input \in TarInputs /\ buf = EncodeTar(input)
        /\ pc = "archive" /\ store = {}
     \/ /\ prog = "index" /\ input \in IndexInputs /\ buf = EncodeIndex(input)
        /\ pc = "index" /\ store = {}
     \/ /\ prog = "caidx"
        /\ \E S \in Streams : \E os \in Chunkings(Len(S)) :
             /\ input \in {Idx(m, CA_FORMAT_TABLE, os, tl, 0, 0) :
                             m \in {CA_FORMAT_INDEX, CA_FORMAT_PAYLOAD}, tl \in BOOLEAN}
             /\ store \in Stores(S, os)
        /\ buf = EncodeIndex(input) /\ pc = "index"
     \/ /\ prog = "extract"
        /\ files \in SeqsUpTo(ExtractFiles, MaxFiles)
        /\ dir \in Directories
        /\ input = [files |-> files, dir |-> dir]
        /\ buf = <<>> /\ pc = "rmtree" /\ store = {}
  /\ prog # "extract" =>
        files = <<>> /\ dir = [state |-> "absent", entries |-> {}]
  /\ calls = <<>>
  /\ chunk_data = <<>>
  /\ written = <<>>
  /\ pos = 0
  /\ err = "none"
  /\ reads = <<>>
  /\ archive = NoHeader
  /\ filename = <<>>
  /\ name = <<>>
  /\ length = 0
  /\ num_chunks = 0
  /\ offset = 0
  /\ chunks = <<>>

Next ==
  \/ CATar_archive
  \/ CAFilename_header
  \/ CAFilename_loop
  \/ CAFile_payload
  \/ CAIndex_headers
  \/ CAIndex_chunk
  \/ CAIndex_return
  \/ parse_caidx_read
  \/ parse_caidx_join
  \/ extract_rmtree
  \/ extract_mkdir
  \/ extract_write
  \/ extract_return

Spec == Init /\ [][Next]_vars

\* the interpreter runs the call to its end: a step that can be taken is
\* taken
FairSpec == Spec /\ WF_vars(Next)
----------------------------------------------------------------------------
(* Properties *)

Range(s) == {s[i] : i \in DOMAIN s}

\* the magic of a header call that got its 16 bytes
MagicOf(r) == SubSeq(r.raw, 9, 16)

LastRead == reads[Len(reads)]

WellFormedFile(f) ==
  /\ f.fn = CA_FORMAT_FILENAME /\ f.en = CA_FORMAT_ENTRY /\ f.pm = CA_FORMAT_PAYLOAD
  /\ f.term
  /\ f.size = 16 + Len(f.data)
  /\ Utf8Valid(f.name, 1)
  /\ 0 \notin Range(f.name)

\* the buffer is one entry record, the files' records, the goodbye record
SyntheticArchive ==
  /\ prog = "tar"
  /\ input.m0 = CA_FORMAT_ENTRY /\ input.end = CA_FORMAT_GOODBYE /\ input.cut = 0
  /\ \A i \in DOMAIN input.files : WellFormedFile(input.files[i])

\* the decode does not fail, the records decoded so far are the first files
\* of the archive, in order, and all of them once the decode has returned
RoundTrip ==
  /\ pc # "failed"
  /\ Len(files) <= Len(input.files)
  /\ \A i \in DOMAIN files :
       /\ Utf8Encode(files[i].filename) = input.files[i].name
       /\ files[i].data = input.files[i].data
  /\ pc = "done" => Len(files) = Len(input.files)

\* C1 as stated: CATar.from_bytes returns the N files of every synthetic
\* archive (entry record, N filename/entry/payload triples, goodbye record),
\* in order, each with its name and its byte-exact data.
C1_RoundTripAnyName == SyntheticArchive => RoundTrip

\* C1, amended: CATar.from_bytes returns the N files of every synthetic
\* archive whose file names are shorter than CA_MAX_FILENAME_SIZE (256)
\* bytes, in order, each with its name and its byte-exact data.
C1_RoundTrip ==
  (/\ SyntheticArchive
   /\ \A i \in DOMAIN input.files : Len(input.files[i].name) < CA_MAX_FILENAME_SIZE)
    => RoundTrip

C1_Witness ==
  /\ SyntheticArchive /\ pc = "done"
  /\ Len(files) = 2
  /\ files[1].filename = <<233>> /\ files[1].data = <<>>
  /\ files[2].filename = <<97>> /\ files[2].data = <<0, 255>>

\* the cumulative offset of the i-th table entry, as it stands in the buffer
TableStart == 16 + CA_HEADER_LEN + CA_TABLE_HEADER_LEN

CumulativeAt(i) ==
  U64(SubSeq(buf, TableStart + CA_TABLE_ENTRY_LEN * (i - 1) + 1,
             TableStart + CA_TABLE_ENTRY_LEN * (i - 1) + 8))

\* C2: in the index CAIndex.from_buffer returns, the first descriptor has
\* offset 0, each next descriptor starts where the one before ends
\* (offset + length), and the length of descriptor i is the i-th cumulative
\* offset of the table minus the descriptor's offset.
C2_Contiguity ==
  (prog = "index" /\ pc = "done") =>
    /\ chunks # <<>> => chunks[1].offset = 0
    /\ \A i \in 1..(Len(chunks) - 1) :
         chunks[i + 1].offset = chunks[i].offset + chunks[i].length
    /\ \A i \in DOMAIN chunks : chunks[i].length = CumulativeAt(i) - chunks[i].offset

C2_Witness ==
  /\ prog = "index" /\ pc = "done"
  /\ Len(chunks) = 3
  /\ chunks[2].offset = 16 /\ chunks[2].length = 24
  /\ chunks[3].offset = 40

\* C3 as stated: a header whose magic is 0xe75b9e112f17417
\* (CA_FORMAT_TABLE_TAIL_MARKER) makes the header reader return None whatever
\* the expected magic, and at the filename position it ends the decode.
C3_TailMarkerEnds ==
  \A i \in DOMAIN reads :
    (Len(reads[i].raw) = 16 /\ MagicOf(reads[i]) = CA_FORMAT_TABLE_TAIL_MARKER) =>
      /\ reads[i].result.kind = "none"
      /\ reads[i].at = "filename" => pc = "done"

\* C3, amended: a header whose magic is 0xdfd35c5e8327c403
\* (CA_FORMAT_GOODBYE) makes the header reader return None, without failing,
\* whatever the expected magic; at the filename position it is the last
\* header read and CATar.from_bytes returns the files decoded before it.
C3_GoodbyeEnds ==
  \A i \in DOMAIN reads :
    (Len(reads[i].raw) = 16 /\ MagicOf(reads[i]) = CA_FORMAT_GOODBYE) =>
      /\ reads[i].result.kind = "none"
      /\ reads[i].at = "filename" =>
           /\ i = Len(reads)
           /\ pc = "done" /\ err = "none"
           /\ i = 3 * Len(files) + 2

C3_Witness ==
  /\ prog = "tar" /\ pc = "done"
  /\ Len(files) = 1
  /\ reads[1].at = "archive" /\ MagicOf(reads[1]) = CA_FORMAT_GOODBYE
  /\ reads[1].result.kind = "none"
  /\ LastRead.at = "filename" /\ MagicOf(LastRead) = CA_FORMAT_GOODBYE

\* C4: CAIndex.from_buffer fails with UnexpectedMagic, and returns nothing,
\* whenever the magic of the index header or of the table header is not the
\* expected one.
C4_IndexRejectsWrongMagic ==
  prog = "index" =>
    \A i \in DOMAIN reads :
      (Len(reads[i].raw) = 16 /\ MagicOf(reads[i]) # reads[i].expected) =>
        pc = "failed" /\ err = "UnexpectedMagic"

RecordMagics ==
  {CA_FORMAT_ENTRY, CA_FORMAT_FILENAME, CA_FORMAT_PAYLOAD, CA_FORMAT_GOODBYE,
   CA_FORMAT_INDEX, CA_FORMAT_TABLE}

\* C5: CATar.from_bytes fails with UnexpectedMagic, and returns nothing,
\* whenever a header (archive entry, file entry, payload, filename) carries
\* the magic of another record type; the one exception is the end marker at
\* the filename position.
C5_TarRejectsSwappedMagic ==
  prog = "tar" =>
    \A i \in DOMAIN reads :
      (/\ Len(reads[i].raw) = 16
       /\ MagicOf(reads[i]) \in RecordMagics
       /\ MagicOf(reads[i]) # reads[i].expected
       /\ ~(reads[i].at = "filename" /\ MagicOf(reads[i]) = CA_FORMAT_GOODBYE)) =>
        pc = "failed" /\ err = "UnexpectedMagic"

\* C6: every file of an archive CATar.from_bytes returns has as many data
\* bytes as its payload header declares, minus the 16 bytes of the header.
C6_PayloadLength ==
  (prog = "tar" /\ pc = "done") =>
    \A i \in DOMAIN files : Len(files[i].data) = files[i].payload_size - 16

C6_Witness ==
  /\ prog = "tar" /\ pc = "done"
  /\ Len(files) = 2
  /\ files[1].payload_size = 18 /\ Len(files[1].data) = 2
  /\ files[2].payload_size = 16 /\ Len(files[2].data) = 0

\* C7 as stated: when nothing is left of the buffer where the next filename
\* header would start, CATar.from_bytes returns the files decoded so far.
C7_ExhaustionReturns ==
  (prog = "tar" /\ reads # <<>> /\ LastRead.at = "filename" /\ LastRead.raw = <<>>) =>
    pc = "done" /\ err = "none"

\* C7, amended: when nothing is left of the buffer where the next filename
\* header would start, CATar.from_bytes fails with Truncated and returns
\* nothing; it returns only after a filename-position header with the
\* goodbye magic.
C7_ExhaustionFails ==
  (prog = "tar" /\ reads # <<>>) =>
    /\ (LastRead.at = "filename" /\ LastRead.raw = <<>>) =>
         pc = "failed" /\ err = "Truncated"
    /\ pc = "done" =>
         /\ LastRead.at = "filename"
         /\ Len(LastRead.raw) = 16 /\ MagicOf(LastRead) = CA_FORMAT_GOODBYE

C7_Witness ==
  /\ prog = "tar" /\ pc = "failed" /\ err = "Truncated"
  /\ LastRead.at = "filename" /\ LastRead.raw = <<>>
  /\ Len(files) = 1
  /\ pos = Len(buf)

\* C8: a header read that finds fewer than 16 bytes fails with Truncated: it
\* yields neither a header nor None, and the decode ends there.
C8_TruncatedHeader ==
  \A i \in DOMAIN reads :
    Len(reads[i].raw) < 16 =>
      /\ reads[i].result.kind = "error" /\ reads[i].result.err = "Truncated"
      /\ i = Len(reads)
      /\ pc = "failed" /\ err = "Truncated"

C8_Witness ==
  /\ prog = "tar" /\ pc = "failed" /\ err = "Truncated"
  /\ LastRead.at = "payload"
  /\ Len(LastRead.raw) = 15
  /\ SubSeq(LastRead.raw, 9, 15) = SubSeq(CA_FORMAT_PAYLOAD, 1, 7)

\* integer division that rounds toward zero
TruncDiv(a, b) == IF a >= 0 THEN a \div b ELSE -((-a) \div b)

HeadersValid ==
  /\ prog = "index"
  /\ Len(reads) = 2
  /\ reads[1].result.kind = "header"
  /\ reads[2].result.kind = "header"

\* index header and preamble, table header, N entries, one table tail
TableLayout == input.tail /\ input.extra = 0 /\ input.cut = 0

\* C9: with both headers valid, CAIndex.from_buffer does not fail and
\* returns (L - 32 - 56) / 40 descriptors, L the length of the buffer; for a
\* buffer of N entries and one 40-byte tail these are the N entries, and the
\* cursor stops in front of the tail.
C9_ChunkCount ==
  HeadersValid =>
    /\ pc # "failed"
    /\ pc = "done" =>
         /\ Len(chunks) = TruncDiv(Len(buf) - CA_HEADER_LEN - CA_TABLE_MIN_LEN,
                                   CA_TABLE_ENTRY_LEN)
         /\ TableLayout =>
              /\ Len(chunks) = Len(input.offs)
              /\ \A i \in DOMAIN chunks : chunks[i].sha = Rep(i, 32)
              /\ pos = Len(buf) - CA_TABLE_ENTRY_LEN

C9_Witness ==
  /\ HeadersValid /\ pc = "done" /\ TableLayout
  /\ Len(chunks) = 3
  /\ pos = Len(buf) - 40

\* the 0-based position of the first zero byte of bs, Len(bs) if there is none
FirstZero(bs) ==
  IF \E i \in DOMAIN bs : bs[i] = 0
    THEN (CHOOSE i \in DOMAIN bs : bs[i] = 0 /\ \A j \in 1..(i - 1) : bs[j] # 0) - 1
    ELSE Len(bs)

\* CAFilename.from_buffer has read a filename header and left its loop
AfterName ==
  /\ prog = "tar" /\ reads # <<>>
  /\ LastRead.at = "filename" /\ LastRead.result.kind = "header"
  /\ pc # "filename"

\* the bytes of the buffer after that filename header
AfterFilenameHeader == SubSeq(buf, LastRead.pos + 16 + 1, Len(buf))

\* the bytes the claim takes for the name: up to the first zero byte when it
\* is among the first 256, the first 256 bytes when none of them is zero
NameBytes ==
  LET bs == AfterFilenameHeader
      k  == FirstZero(bs)
  IN  IF k < Len(bs) /\ k < CA_MAX_FILENAME_SIZE THEN SubSeq(bs, 1, k)
      ELSE SubSeq(bs, 1, CA_MAX_FILENAME_SIZE)

\* C10 as stated: CAFilename.from_buffer yields, without error, the K bytes
\* before the first zero byte (K < 256), or the first 256 bytes when none of
\* them is zero.
C10_NameAccepted ==
  AfterName => (pc = "payload" /\ Utf8Encode(name) = NameBytes)

\* C10, amended: when those bytes (the K bytes before the first zero byte,
\* K < 256, or the first 256 bytes when none of them is zero) are well-formed
\* UTF-8, CAFilename.from_buffer yields them as the name, without error;
\* when they are not, it fails with UnicodeDecodeError.
C10_Filename ==
  AfterName =>
    IF Utf8Valid(NameBytes, 1)
      THEN pc = "payload" /\ Utf8Encode(name) = NameBytes /\ filename = NameBytes
      ELSE pc = "failed" /\ err = "UnicodeDecodeError"

C10_Witness ==
  /\ AfterName /\ pc = "payload"
  /\ FirstZero(AfterFilenameHeader) > CA_MAX_FILENAME_SIZE
  /\ Len(name) = CA_MAX_FILENAME_SIZE
  /\ Utf8Encode(name) = SubSeq(AfterFilenameHeader, 1, CA_MAX_FILENAME_SIZE)

----------------------------------------------------------------------------
(* Descriptors of a valid table *)

RECURSIVE SumLengths(_)
SumLengths(cs) == IF cs = <<>> THEN 0 ELSE cs[1].length + SumLengths(Tail(cs))

\* the index buffer is laid out as the encoder lays it out and its
\* cumulative offsets are positive and strictly increasing
ValidTable ==
  /\ HeadersValid /\ TableLayout
  /\ \A i \in 1..Len(input.offs) :
        input.offs[i] > (IF i = 1 THEN 0 ELSE input.offs[i - 1])

LastCumulative == IF input.offs = <<>> THEN 0 ELSE input.offs[Len(input.offs)]

\* C14: the descriptors decoded from a valid index buffer (cumulative
\* offsets positive and strictly increasing) start at offset 0, have strictly
\* increasing offsets, and their lengths sum to the last cumulative offset,
\* the total length of the stream they describe.
C14_ValidTable ==
  (ValidTable /\ pc = "done") =>
    /\ Len(chunks) = Len(input.offs)
    /\ chunks # <<>> => chunks[1].offset = 0
    /\ \A i \in 1..(Len(chunks) - 1) : chunks[i].offset < chunks[i + 1].offset
    /\ SumLengths(chunks) = LastCumulative

C14_Witness ==
  /\ ValidTable /\ pc = "done"
  /\ Len(chunks) = 3
  /\ chunks[3].offset = 40 /\ SumLengths(chunks) = 56

----------------------------------------------------------------------------
(* The cursor around a header call *)

\* the call got its 16 bytes: it returned a header, returned None, or failed
\* on the magic
FullHeaderCall(r) == r.result.kind \in {"header", "none"} \/ r.result.err = "UnexpectedMagic"

\* the bytes a decoder reads unconditionally right after a header call of
\* this kind
FixedFieldsAfter(at) ==
  CASE at = "index" -> CA_HEADER_LEN
    [] at \in {"archive", "entry"} -> CA_ENTRY_FIELDS_LEN
    [] OTHER -> 0

\* C15: a header call that returns a header, returns None or fails on the
\* magic has read exactly the 16 bytes at the cursor and leaves the cursor 16
\* bytes further: whatever the decoders read next (fixed fields, the next
\* header, the first name byte, the payload data, the first table entry)
\* starts there, and a failure on the magic leaves the cursor there.
C15_HeaderAdvance ==
  /\ \A i \in DOMAIN reads :
        FullHeaderCall(reads[i]) =>
          /\ reads[i].raw = SubSeq(buf, reads[i].pos + 1, reads[i].pos + 16)
          /\ (i < Len(reads) /\ reads[i].at \in {"index", "archive", "entry"}) =>
                reads[i + 1].pos = reads[i].pos + 16 + FixedFieldsAfter(reads[i].at)
  /\ (reads # <<>> /\ FullHeaderCall(LastRead)) =>
        /\ (pc = "failed" /\ err = "UnexpectedMagic") => pos = LastRead.pos + 16
        /\ (prog = "tar" /\ pc = "done") => pos = LastRead.pos + 16
        /\ (pc = "filename" /\ filename = <<>>) => pos = LastRead.pos + 16
        /\ (pc = "file" /\ LastRead.at = "archive") =>
              pos = LastRead.pos + 16 + CA_ENTRY_FIELDS_LEN
        /\ (pc = "file" /\ LastRead.at = "payload") =>
              pos = LastRead.pos + 16 + Len(files[Len(files)].data)
        /\ (pc = "chunks" /\ chunks = <<>>) => pos = LastRead.pos + 16

\* a goodbye record ended an archive of one file whose archive-level entry
\* was a goodbye record too
C15_Witness ==
  /\ prog = "tar" /\ pc = "done" /\ Len(files) = 1
  /\ reads[1].result.kind = "none"
  /\ reads[2].result.kind = "header" /\ reads[2].pos = reads[1].pos + 64
  /\ LastRead.result.kind = "none" /\ pos = LastRead.pos + 16 /\ pos = Len(buf)

----------------------------------------------------------------------------
(* Range of the descriptor fields *)

\* C18: every descriptor of an index that decoded without error has an
\* offset and a length that are unsigned 64-bit values, also when the
\* cumulative offsets of the table do not increase.  (The offsets of the
\* buffers explored are far below 2^64, the lower bound is what is at stake.)
C18_Unsigned ==
  (prog = "index" /\ pc = "done") =>
    \A i \in DOMAIN chunks :
      /\ 0 <= chunks[i].offset
      /\ 0 <= chunks[i].length

----------------------------------------------------------------------------
(* The table loop stays inside the buffer *)

\* both header calls of CAIndex.from_buffer came back without an error
HeadersRead ==
  /\ prog = "index"
  /\ Len(reads) = 2
  /\ reads[1].result.kind # "error"
  /\ reads[2].result.kind # "error"

\* C19: once both headers are read the loop over the table never reads past
\* the end of the buffer: no iteration fails, every descriptor got its 8
\* offset bytes and its full 32-byte hash, the cursor is 64 + 40 per
\* descriptor, and it is at most the buffer length L when the loop is over.
C19_LoopInBounds ==
  HeadersRead =>
    /\ pc \in {"chunks", "done"}
    /\ \A i \in DOMAIN chunks : Len(chunks[i].sha) = 32
    /\ pos = CA_TABLE_HEADER_LEN + CA_HEADER_LEN + CA_TABLE_HEADER_LEN
              + CA_TABLE_ENTRY_LEN * Len(chunks)
    /\ pos <= Len(buf)
    /\ pc = "done" =>
          /\ Len(chunks) = (IF num_chunks > 0 THEN num_chunks ELSE 0)
          /\ pos <= length

\* a buffer cut inside its table tail: the two whole entries are read and
\* fewer than 40 bytes are left
C19_Witness ==
  /\ HeadersRead /\ pc = "done"
  /\ Len(chunks) = 2
  /\ Len(buf) - pos > 0 /\ Len(buf) - pos < CA_TABLE_ENTRY_LEN

----------------------------------------------------------------------------
(* Termination *)

\* C17: CATar.from_bytes terminates on every finite buffer, by returning or
\* by raising; in particular a buffer that ends inside a filename record,
\* before the terminator and before the cap, ends in a failure.
\* (In the name loop at the end of the buffer CAFilename_loop stays enabled
\* and its step leaves every variable as it is: the interpreter keeps
\* iterating, and the behaviour repeats that state for ever.)
C17_Terminates == <>(prog = "tar" => pc \in {"done", "failed"})

----------------------------------------------------------------------------
(* parse_caidx *)

TarStages == {"archive", "file", "filename", "payload", "done"}

\* CATar.from_bytes was entered on the joined stream
TarEntered ==
  prog = "caidx" /\ (pc \in TarStages \/ (reads # <<>> /\ reads[1].at = "archive"))

\* the store returned exactly `length` bytes for every descriptor
ExactLengths ==
  /\ Len(chunk_data) = Len(chunks)
  /\ \A i \in DOMAIN chunks : Len(chunk_data[i]) = chunks[i].length

\* C11: parse_caidx reads the store once per descriptor, in table order, and
\* joins what it returned in that order; when every descriptor got exactly
\* `length` bytes the stream is as long as the sum of the lengths, each
\* chunk lying at its offset.  When the store fails on a chunk the failure
\* ends parse_caidx: no stream is built and CATar.from_bytes is not entered.
C11_Reassembly ==
  prog = "caidx" =>
    /\ Len(calls) <= Len(chunks)
    /\ \A i \in DOMAIN calls : calls[i] = chunks[i]
    /\ \A i \in DOMAIN chunk_data :
          chunk_data[i] = DirectoryChunkReader_read(store, chunks[i]).data
    /\ TarEntered => Len(calls) = Len(chunks) /\ Len(chunk_data) = Len(chunks)
    /\ (TarEntered /\ ExactLengths) =>
          /\ Len(buf) = SumLengths(chunks)
          /\ \A i \in DOMAIN chunks :
                SubSeq(buf, chunks[i].offset + 1, chunks[i].offset + chunks[i].length)
                  = chunk_data[i]
    /\ err = "ChunkResolutionError" =>
          /\ pc = "failed" /\ ~TarEntered
          /\ Len(calls) = Len(chunk_data) + 1
          /\ DirectoryChunkReader_read(store, calls[Len(calls)]).err # "none"
          /\ buf = EncodeIndex(input)
          /\ archive = NoHeader /\ files = <<>>

C11_Witness ==
  /\ prog = "caidx" /\ pc = "done"
  /\ Len(chunks) = 3 /\ Len(calls) = 3 /\ ExactLengths
  /\ Len(buf) = 187

\* parse_caidx on the index of the given cumulative offsets (whole, with its
\* tail) and the store holding the chunks of stream S cut at those offsets
Scenario(S, os) ==
  /\ prog = "caidx"
  /\ input = Idx(CA_FORMAT_INDEX, CA_FORMAT_TABLE, os, TRUE, 0, 0)
  /\ store = StoreOf(S, os)

\* the archive holds exactly the file "a.txt" with its 5 bytes
OnlyAtxt ==
  /\ Len(files) = 1
  /\ files[1].filename = Utf8Decode(AtxtName)
  /\ files[1].data = HelloData

\* C12 as stated: an index of 2 chunks of lengths 16 and 24 (cumulative
\* offsets 16 and 40), whose chunks are the 40 bytes of an archive of the
\* one file "a.txt" with 5 bytes of payload, decodes to that one file.
C12_FortyBytes ==
  (Scenario(FortyBytes, <<16, 40>>) /\ pc \in {"done", "failed"}) =>
    pc = "done" /\ OnlyAtxt

\* C12: an index of 2 chunks of lengths 16 and 171 (cumulative offsets 16
\* and 187), whose chunks are the 187 bytes of the archive of the one file
\* "a.txt" with 5 bytes of payload (entry record, filename record, entry
\* record, payload record, goodbye record), decodes without failure to
\* exactly that file.
C12_EndToEnd ==
  Scenario(TarStream(AtxtArchive), <<16, 187>>) =>
    /\ pc # "failed"
    /\ pc \in TarStages =>
          /\ Len(chunks) = 2
          /\ chunks[1].length = 16 /\ chunks[2].length = 171
          /\ buf = TarStream(AtxtArchive)
    /\ pc = "done" => OnlyAtxt

C12_Witness == Scenario(TarStream(AtxtArchive), <<16, 187>>) /\ pc = "done" /\ OnlyAtxt

\* an index with valid headers and no table entry
ZeroChunkIndex ==
  /\ prog = "caidx"
  /\ input.im = CA_FORMAT_INDEX /\ input.tm = CA_FORMAT_TABLE
  /\ input.offs = <<>>

\* C13: on an index without table entries parse_caidx gets no descriptor,
\* reads no chunk, joins the empty stream, and the archive decode fails as
\* truncated at the read of the archive-level entry header; it never returns
\* an archive.
C13_ZeroChunks ==
  ZeroChunkIndex =>
    /\ pc \in {"index", "chunks", "read", "archive", "failed"}
    /\ chunks = <<>> /\ calls = <<>> /\ chunk_data = <<>>
    /\ pc \in {"archive", "failed"} => buf = <<>>
    /\ pc = "failed" =>
          /\ err = "Truncated"
          /\ Len(reads) = 1 /\ reads[1].at = "archive" /\ reads[1].raw = <<>>
          /\ reads[1].result.kind = "error" /\ reads[1].result.err = "Truncated"
          /\ archive = NoHeader /\ files = <<>>

C13_Witness ==
  /\ ZeroChunkIndex /\ input.tail
  /\ pc = "failed" /\ err = "Truncated"
  /\ buf = <<>> /\ pos = 0

----------------------------------------------------------------------------
(* extract_tar *)

IsOld(e) == e.data = OldData

\* C16: extract_tar clears and recreates the directory before it writes any
\* file, and writes nothing when clearing or recreating fails; the files are
\* written one per record in archive order; when a write fails the files
\* written before are still there (with their data unless a later record of
\* the same name replaced it) and no later file is written.
C16_Extract ==
  prog = "extract" =>
    /\ Len(written) <= Len(files)
    /\ \A i \in DOMAIN written : written[i] = files[i]
    /\ (written # <<>> \/ \E e \in dir.entries : ~IsOld(e)) => dir.state = "fresh"
    /\ pc \in {"write", "done"} => dir.state = "fresh"
    /\ dir.state = "fresh" => \A e \in dir.entries : ~IsOld(e)
    /\ (pc = "failed" /\ dir.state # "fresh") =>
          written = <<>> /\ \A e \in dir.entries : IsOld(e)
    /\ \A i \in DOMAIN written :
          \E e \in dir.entries :
            /\ e.name = files[i].filename
            /\ (\A j \in (i + 1)..Min(Len(written) + 1, Len(files)) :
                  files[j].filename # files[i].filename) => e.data = files[i].data
    /\ \A e \in dir.entries :
          ~IsOld(e) =>
            \/ \E i \in DOMAIN written : e.name = files[i].filename
            \/ /\ pc = "failed" /\ Len(written) < Len(files)
               /\ e.name = files[Len(written) + 1].filename /\ e.data = <<>>
    /\ pc = "done" => Len(written) = Len(files)

\* the second write failed: the first file is there, alone
C16_Witness ==
  /\ prog = "extract" /\ pc = "failed"
  /\ input.dir.state = "old" /\ input.dir.entries # {}
  /\ Len(files) = 2 /\ Len(written) = 1
  /\ files[1].filename # files[2].filename
  /\ dir = [state |-> "fresh",
            entries |-> {[name |-> files[1].filename, data |-> files[1].data]}]

====
